---- MODULE Spec2Model ----
(***************************************************************************)
(* Model of the zustand stores of erik-trantt/shuttle: the game store      *)
(* (courts, games, nextCourt, settings), the player store (players,        *)
(* selectedPlayers), the pair store (pairs) and the queue-number           *)
(* utilities.  Every action is one exported store operation (or one UI     *)
(* handler), run to completion: JavaScript runs each handler               *)
(* synchronously on a single thread.                                       *)
(*                                                                         *)
(* Player ids are the positions 1..Len(players) of the players array;      *)
(* court ids are the positions 1..NumCourts of COURT_IDS; a game's id is   *)
(* its position in the games list (ids are unique in the code: uuid).      *)
(*                                                                         *)
(* A queue number "GGG-HHMM-PPP" is the triple <<G, HHMM, P>>; the empty   *)
(* string returned on overflow is <<>>.                                    *)
(*                                                                         *)
(* Three specifications share the actions: Spec runs every operation from  *)
(* the initial stores; SpecCourts runs starts, releases and locks with two *)
(* games at once on court; SpecLate starts where generateQueueNumber is    *)
(* two games short of its limit.  Two more cover pairs: SpecPairs runs the *)
(* pair store with the other stores, SpecApp the pair and player handlers  *)
(* of App.tsx, which keeps the same data in component state.               *)
(* SpecPool runs the pool's selection over players that carry partners,   *)
(* SpecDraw the suggestPlayers that draws by recursion, and SpecQueue the  *)
(* App component that keeps a waiting queue of games.  SpecRoster runs the *)
(* roster operations (add, delete, undelete) around one SINGLE game.       *)
(***************************************************************************)
EXTENDS Integers, Sequences, FiniteSets, TLC

(* ------------------------------ bounds --------------------------------- *)
NumCourts == 2
InitPlayers == 3
MaxPlayers == 4
MaxGames == 2
MaxClock == 1
MaxAsides == 2
StartOfSession == 900

(* ------------------------- program constants --------------------------- *)
QueueLimit == 1000
maxAttempts == 10
QueueCapacity == 6

VARIABLES
    players,          \* player store: players[i] = [status, queueNumber, partnerId,
                      \*   partner]
    selectedPlayers,  \* player store: sequence of player ids
    courtData,        \* game store: courtData[c] = [court, gameId, game, players]
    games,            \* game store: list of Game records
    nextCourt,        \* game store: id of the court snapshot, NoCourt for null
    settings,         \* game store: GameSettings
    pairs,            \* pair store: list of pairs [id, playerIds]
    clock,            \* minutes of wall-clock time elapsed since the session began
    released,         \* history: per player, the round and rank of the release that issued its key
    gamesLeft,        \* budget: games the run may still start
    asidesLeft,       \* budget: steps the run may still take outside the select-start-release cycle
    lastSuggest,      \* history: how the last suggestPlayers call ended, after how many rounds
    gameQueue,        \* App with a waiting queue: the games waiting for a court
    queuedGamePlayers \* App with a waiting queue: per waiting game, its players

vars == <<players, selectedPlayers, courtData, games, nextCourt, settings, pairs,
          clock, released, gamesLeft, asidesLeft, lastSuggest, gameQueue,
          queuedGamePlayers>>

Courts == 1..NumCourts
NoCourt == 0
NoGame == 0
NoPlayer == 0
Formats == {"DOUBLE", "PAIRED_DOUBLE", "SINGLE"}

(* ------------------------------ helpers -------------------------------- *)
Range(s) == {s[i] : i \in DOMAIN s}

Min(a, b) == IF a < b THEN a ELSE b

(* Array.prototype.slice(start, end) for 0 <= start, 0 <= end *)
slice(s, start, end) ==
    IF Min(end, Len(s)) <= start THEN <<>> ELSE SubSeq(s, start + 1, Min(end, Len(s)))

(* Array.prototype.filter((p) => p.id !== id) *)
without(s, id) == SelectSeq(s, LAMBDA y : y # id)

(* The stores' state as one value; every operation below maps a store      *)
(* value to the store value it leaves.                                     *)
Store ==
    [players |-> players, selectedPlayers |-> selectedPlayers, courtData |-> courtData,
     games |-> games, nextCourt |-> nextCourt, settings |-> settings, pairs |-> pairs]

(* configs/index.ts: buildGameSettings *)
buildGameSettings(format) ==
    CASE format = "DOUBLE" ->
           [format |-> "DOUBLE", playerNumber |-> 4, suggestionSize |-> 3, allowPairs |-> TRUE]
      [] format = "PAIRED_DOUBLE" ->
           [format |-> "PAIRED_DOUBLE", playerNumber |-> 4, suggestionSize |-> 2, allowPairs |-> TRUE]
      [] format = "SINGLE" ->
           [format |-> "SINGLE", playerNumber |-> 2, suggestionSize |-> 1, allowPairs |-> FALSE]

(* The "HHMM" string of the wall clock, as its number. *)
timeString == StartOfSession + clock

(* utils/index.ts: generateQueueNumber.  Three fixed-width fields; the     *)
(* empty string when either index needs more than three digits.           *)
generateQueueNumber(gameIndex, playerIndex) ==
    IF gameIndex >= QueueLimit \/ playerIndex >= QueueLimit
    THEN <<>>
    ELSE <<gameIndex, timeString, playerIndex>>

(* utils/index.ts: generateQueueNumber, the string it returns, as the list *)
(* of its character codes: the game index and the player index padded to  *)
(* three digits, the time as "HHMM", joined with "-" (code 45; "0" is 48). *)
keyString(queueNumber) ==
    IF queueNumber = <<>>
    THEN <<>>
    ELSE LET digit(n, place) == 48 + ((n \div place) % 10)
             padStart3(n) ==
                 IF n < 1000
                 THEN <<digit(n, 100), digit(n, 10), digit(n, 1)>>
                 ELSE <<digit(n, 1000), digit(n, 100), digit(n, 10), digit(n, 1)>>
             time(n) == <<digit(n, 1000), digit(n, 100), digit(n, 10), digit(n, 1)>>
         IN  padStart3(queueNumber[1]) \o <<45>> \o time(queueNumber[2])
                \o <<45>> \o padStart3(queueNumber[3])

(* utils/index.ts: parseQueueNumberToOrder, followed by Number(): the      *)
(* fields joined without separators, read as a decimal number.  Widths are *)
(* 3, 4 and 3 digits; Number("") is 0.  The ten-digit number is kept as    *)
(* its two limbs in base 1000: <<the first seven digits, the last three>>. *)
parseQueueNumberToOrder(queueNumber) ==
    IF queueNumber = <<>>
    THEN <<0, 0>>
    ELSE <<queueNumber[1] * 10000 + queueNumber[2], queueNumber[3]>>

(* a < b on order numbers *)
orderLess(a, b) == a[1] < b[1] \/ (a[1] = b[1] /\ a[2] < b[2])

(* String.startsWith on a queue number, for the zero-padded prefix. *)
startsWith(queueNumber, prefix) ==
    queueNumber # <<>> /\ prefix < QueueLimit /\ queueNumber[1] = prefix

(* game store: getGameCount *)
getGameCount(st) == Len(st.games)

(* game store: getAutoSelectionSize *)
getAutoSelectionSize(st) == st.settings.playerNumber - st.settings.suggestionSize

(* player store: getLastQueuedAvailablePlayers *)
getLastQueuedAvailablePlayers(st) ==
    LET gameCount == getGameCount(st)
        prefix == IF gameCount > 0 THEN gameCount + 1 ELSE 0
    IN  {i \in DOMAIN st.players :
            st.players[i].status = "available" /\ startsWith(st.players[i].queueNumber, prefix)}

(* player store: getSortedAvailablePlayers.  Array.prototype.sort by       *)
(* ascending order number is stable: equal order numbers keep the order of *)
(* the players array.                                                      *)
getSortedAvailablePlayers(st) ==
    LET ps == st.players
        avail == {i \in DOMAIN ps : ps[i].status = "available"}
        order(i) == parseQueueNumberToOrder(ps[i].queueNumber)
        before(j, i) == orderLess(order(j), order(i)) \/ (order(j) = order(i) /\ j < i)
        rank(i) == Cardinality({j \in avail : before(j, i)}) + 1
    IN  [k \in 1..Cardinality(avail) |-> CHOOSE i \in avail : rank(i) = k]

(* player store: getInitialSelection.  The loop walks the sorted available *)
(* players; each one is pushed, and the partner object it carries, if any, *)
(* right after it when pairs are allowed.                                   *)
RECURSIVE initialSelectionFrom(_, _, _, _, _)
initialSelectionFrom(st, availablePlayers, size, index, selection) ==
    IF ~(Len(selection) < size /\ index <= Len(availablePlayers))
    THEN selection
    ELSE LET player == availablePlayers[index]
             withPlayer == Append(selection, player)
         IN  initialSelectionFrom(st, availablePlayers, size, index + 1,
                 IF st.settings.allowPairs /\ st.players[player].partner # NoPlayer
                 THEN Append(withPlayer, st.players[player].partner)
                 ELSE withPlayer)

getInitialSelection(st, size) ==
    initialSelectionFrom(st, getSortedAvailablePlayers(st), size, 1, <<>>)

(* player store: updatePlayerStatus *)
updatePlayerStatus(ps, id, status) ==
    [i \in DOMAIN ps |-> IF i = id THEN [ps[i] EXCEPT !.status = status] ELSE ps[i]]

(* player store: updatePlayer(id, {status, queueNumber}) *)
updatePlayer(ps, id, status, queueNumber) ==
    [i \in DOMAIN ps |->
        IF i = id THEN [ps[i] EXCEPT !.status = status, !.queueNumber = queueNumber]
        ELSE ps[i]]

(* player store: updateQueueNumber *)
updateQueueNumber(ps, id, gameIndex, playerIndex) ==
    [i \in DOMAIN ps |->
        IF i = id
        THEN [ps[i] EXCEPT !.queueNumber = generateQueueNumber(gameIndex, playerIndex)]
        ELSE ps[i]]

(* game store: getNextAvailableCourt.  Object.values keeps the insertion   *)
(* order of COURT_IDS; the filter reads the status only.                   *)
getNextAvailableCourt(st) ==
    LET availableCourts == {c \in Courts : st.courtData[c].court.status = "available"}
    IN  IF availableCourts = {} THEN NoCourt
        ELSE CHOOSE c \in availableCourts : \A d \in availableCourts : c <= d

(* game store: updateCourtData.  data.court is a partial Court (a record   *)
(* with some of the fields); an undefined gameId or game keeps the current *)
(* one (data.x !== undefined ? data.x : current.x); every caller passes a  *)
(* players array, and an array, even an empty one, is truthy.  The         *)
(* validation of the status transition is commented out in the source.     *)
updateCourtData(cd, courtId, data) ==
    IF courtId \notin DOMAIN cd
    THEN cd
    ELSE [cd EXCEPT ![courtId] =
            [court   |-> [f \in DOMAIN cd[courtId].court |->
                             IF f \in DOMAIN data.court
                             THEN data.court[f]
                             ELSE cd[courtId].court[f]],
             players |-> data.players,
             gameId  |-> IF data.gameId # NoGame THEN data.gameId ELSE cd[courtId].gameId,
             game    |-> IF data.game # NoGame THEN data.game ELSE cd[courtId].game]]

(* game store: hasNextCourt *)
hasNextCourt(st) == st.nextCourt # NoCourt

(* game store: canStartGame *)
canStartGame(st) ==
    Len(st.selectedPlayers) = st.settings.playerNumber /\ hasNextCourt(st)

(* game store: the Game record built by startGame *)
newGame(st, gameId) ==
    [id          |-> gameId,
     courtId     |-> st.nextCourt,
     firstParty  |-> [playerIds |-> slice(st.selectedPlayers, 0, 2), score |-> 0],
     secondParty |-> [playerIds |-> slice(st.selectedPlayers, 2, Len(st.selectedPlayers)),
                      score |-> 0],
     index       |-> Len(st.games)]

(* game store: addGame.  The list keeps each Game without the playerIds of *)
(* its parties: the stores read games.length only, and the slot's players  *)
(* list holds the same ids in the same order while the game is on court.   *)
addGame(game) ==
    [id |-> game.id, courtId |-> game.courtId, index |-> game.index,
     firstScore |-> game.firstParty.score, secondScore |-> game.secondParty.score]

(* game store: startGame, the forEach over the selected players *)
markPlaying(ps, selected) ==
    [i \in DOMAIN ps |->
        IF i \in Range(selected) THEN [ps[i] EXCEPT !.status = "playing"] ELSE ps[i]]

(* A startGame that binds the game without setting the court's status. *)
bindCourtKeepingStatus(cd, courtId, gameId, selected) ==
    updateCourtData(cd, courtId,
        [court |-> [locked |-> cd[courtId].court.locked], gameId |-> gameId, game |-> gameId,
         players |-> selected])

(* game store: startGame, the court update *)
bindCourt(cd, courtId, gameId, selected) ==
    updateCourtData(cd, courtId,
        [court |-> [status |-> "playing"], gameId |-> gameId, game |-> gameId,
         players |-> selected])

(* A startGame that returns after the court update: the game is not added *)
(* to the list and the selection is not reset.                             *)
startGameHalfway(st) ==
    IF ~hasNextCourt(st) \/ ~canStartGame(st)
    THEN st
    ELSE [st EXCEPT
            !.players = markPlaying(st.players, st.selectedPlayers),
            !.courtData = bindCourt(st.courtData, st.nextCourt, Len(st.games) + 1,
                                    st.selectedPlayers)]

(* game store: startGame *)
startGame(st) ==
    IF ~hasNextCourt(st) \/ ~canStartGame(st)
    THEN st
    ELSE LET gameId == Len(st.games) + 1
         IN  [st EXCEPT
                !.players = markPlaying(st.players, st.selectedPlayers),
                !.courtData = bindCourt(st.courtData, st.nextCourt, gameId, st.selectedPlayers),
                !.games = Append(st.games, addGame(newGame(st, gameId))),
                !.selectedPlayers = <<>>,
                !.nextCourt = NoCourt]

(* game store: autoSelectPlayers *)
autoSelectPlayers(st) ==
    LET sorted == getSortedAvailablePlayers(st)
        autoSelectionSize == getAutoSelectionSize(st)
        initialPlayer == sorted[1]
        initial ==
            IF st.settings.allowPairs /\ st.players[initialPlayer].partner # NoPlayer
            THEN <<initialPlayer, st.players[initialPlayer].partner>>
            ELSE <<initialPlayer>>
        candidates ==
            IF Len(initial) < autoSelectionSize
            THEN initial \o slice(sorted, Len(initial), autoSelectionSize - Len(initial))
            ELSE initial
    IN  IF Len(sorted) = 0
        THEN st
        ELSE [st EXCEPT !.selectedPlayers = st.selectedPlayers \o candidates]

(* game store: releaseCourt, the forEach over the slot's players: the      *)
(* k-th released player (k counted from 0) gets position base + k.         *)
RECURSIVE releasePlayers(_, _, _, _, _)
releasePlayers(ps, toRelease, k, gameIndex, base) ==
    IF k > Len(toRelease)
    THEN ps
    ELSE releasePlayers(
            updatePlayer(ps, toRelease[k], "available",
                         generateQueueNumber(gameIndex, base + (k - 1))),
            toRelease, k + 1, gameIndex, base)

(* game store: releaseCourt, the court update *)
clearCourt(cd, courtId) ==
    updateCourtData(cd, courtId,
        [court |-> [status |-> "available"], gameId |-> NoGame, game |-> NoGame,
         players |-> <<>>])

(* game store: releaseCourt *)
releaseCourt(st, courtId) ==
    IF courtId \notin DOMAIN st.courtData
    THEN st
    ELSE LET lastQueued == getLastQueuedAvailablePlayers(st)
             playersToRelease == st.courtData[courtId].players
         IN  [st EXCEPT
                !.players = releasePlayers(st.players, playersToRelease, 1,
                                           Len(st.games) + 1, Cardinality(lastQueued)),
                !.courtData = clearCourt(st.courtData, courtId)]

(* game store: toggleCourtLock *)
toggleCourtLock(st, courtId) ==
    IF courtId \notin DOMAIN st.courtData
    THEN st
    ELSE LET foundCourt == st.courtData[courtId]
             updatedCourt ==
                [foundCourt EXCEPT
                    !.court = [locked |-> ~foundCourt.court.locked,
                               status |-> IF foundCourt.court.locked
                                          THEN "available" ELSE "unavailable"]]
         IN  [st EXCEPT
                !.courtData = updateCourtData(st.courtData, courtId, updatedCourt),
                !.nextCourt = IF st.nextCourt = courtId THEN NoCourt ELSE st.nextCourt]

(* game store: updateSettings *)
updateSettings(st, format) == [st EXCEPT !.settings = buildGameSettings(format)]

(* togglePlayer without the bound on the selection's length: a player that *)
(* is not selected is always appended.                                     *)
togglePlayerUnbounded(st, currentSelection, playerToToggle) ==
    IF playerToToggle \in Range(currentSelection)
    THEN without(currentSelection, playerToToggle)
    ELSE Append(currentSelection, playerToToggle)

(* player store: selectPlayer, its local togglePlayer (splice at findIndex) *)
togglePlayer(st, currentSelection, playerToToggle) ==
    IF playerToToggle \in Range(currentSelection)
    THEN LET at == CHOOSE k \in DOMAIN currentSelection :
                      /\ currentSelection[k] = playerToToggle
                      /\ \A j \in 1..(k - 1) : currentSelection[j] # playerToToggle
         IN  SubSeq(currentSelection, 1, at - 1)
                \o SubSeq(currentSelection, at + 1, Len(currentSelection))
    ELSE IF Len(currentSelection) < st.settings.playerNumber
         THEN Append(currentSelection, playerToToggle)
         ELSE currentSelection

(* player store: selectPlayer *)
selectPlayer(st, player) ==
    LET initialSelection == getInitialSelection(st, getAutoSelectionSize(st))
        currentSelection == st.selectedPlayers
        isInitialSelection ==
            Len(currentSelection) # 0 /\ player \in Range(initialSelection)
        partner == st.players[player].partner
        toggled ==
            IF ~st.settings.allowPairs \/ partner = NoPlayer
            THEN togglePlayer(st, currentSelection, player)
            ELSE IF Len(currentSelection) # 3
                 THEN togglePlayer(st, togglePlayer(st, currentSelection, player), partner)
                 ELSE currentSelection
    IN  IF isInitialSelection THEN st ELSE [st EXCEPT !.selectedPlayers = toggled]

(* player store: deletePlayer *)
deletePlayer(st, id) ==
    [st EXCEPT
        !.players = updatePlayerStatus(st.players, id, "retired"),
        !.selectedPlayers = without(st.selectedPlayers, id)]

(* player store: undeletePlayer *)
undeletePlayer(st, id) ==
    LET st1 == [st EXCEPT !.players = updatePlayerStatus(st.players, id, "available")]
        gameCount == getGameCount(st1)
        lastQueuedAvailablePlayersCount == Cardinality(getLastQueuedAvailablePlayers(st1))
    IN  [st1 EXCEPT
            !.players = updateQueueNumber(st1.players, id,
                                          IF gameCount > 0 THEN gameCount + 1 ELSE 0,
                                          lastQueuedAvailablePlayersCount + 1)]

(* player store: addPlayer *)
addPlayer(st) ==
    [st EXCEPT
        !.players = Append(st.players,
                           [status |-> "available",
                            queueNumber |-> generateQueueNumber(getGameCount(st) + 1,
                                                                Len(st.players)),
                            partnerId |-> NoPlayer, partner |-> NoPlayer])]

(* components/player/Pool: handleStartGame *)
handleStartGame(st) ==
    LET st1 == autoSelectPlayers(startGame(st))
        court == getNextAvailableCourt(st1)
    IN  IF court # NoCourt THEN [st1 EXCEPT !.nextCourt = court] ELSE st1

(* utils/setup.ts: buildInitialPlayers (partnerId is absent: undefined) *)
buildInitialPlayers ==
    [i \in 1..InitPlayers |->
        [status |-> "available", queueNumber |-> generateQueueNumber(0, i - 1),
         partnerId |-> NoPlayer, partner |-> NoPlayer]]

(* utils/setup.ts: buildInitialCourtData (locked is absent, which reads as false) *)
buildInitialCourtData ==
    [c \in Courts |->
        [court   |-> [status |-> "available", locked |-> FALSE],
         gameId  |-> NoGame,
         game    |-> NoGame,
         players |-> <<>>]]

(* ------------------------- suggestPlayers ------------------------------ *)
(* utils/game-logic.ts: validatePlayerSelection *)
validatePlayerSelection(st, playerToValidate, selected) ==
    LET hasEnoughPlayers == Len(selected) > st.settings.playerNumber
        isAutoSelected ==
            playerToValidate \in Range(slice(selected, 0, getAutoSelectionSize(st)))
    IN  IF hasEnoughPlayers THEN FALSE
        ELSE IF isAutoSelected THEN FALSE
        ELSE IF st.settings.format \in {"SINGLE", "DOUBLE"} THEN TRUE
        ELSE IF \/ st.players[playerToValidate].partnerId = NoPlayer
                \/ st.players[playerToValidate].partner = NoPlayer
             THEN TRUE
        ELSE Len(selected) < st.settings.playerNumber - 1

(* What reading a field of undefined leaves of a round: a TypeError. *)
Thrown == <<NoPlayer>>

(* remainingForSelection.filter((p) => !p.partnerId) *)
unpairedPlayers(st, remainingForSelection) ==
    SelectSeq(remainingForSelection, LAMBDA p : st.players[p].partnerId = NoPlayer)

(* game store: suggestPlayers, the last slot of a round: one unpaired       *)
(* player drawn at random, when there is any.                               *)
lastPlayerDraws(st, randomSelection, remainingForSelection) ==
    LET unpaired == unpairedPlayers(st, remainingForSelection)
    IN  IF Len(unpaired) > 0
        THEN {Append(randomSelection, lastPlayer) : lastPlayer \in Range(unpaired)}
        ELSE {randomSelection}

(* game store: suggestPlayers, "Select third player" and what follows it:   *)
(* a player drawn at random from the rest, then its partner if it has one   *)
(* that is left, else a last unpaired player.                               *)
thirdPlayerDraws(st, randomSelection, remainingForSelection) ==
    UNION { LET rest == without(remainingForSelection, thirdPlayer)
                withThird == Append(randomSelection, thirdPlayer)
                partnerId == st.players[thirdPlayer].partnerId
            IN  IF partnerId # NoPlayer
                THEN {IF partnerId \in Range(rest)
                      THEN Append(withThird, partnerId) ELSE withThird}
                ELSE lastPlayerDraws(st, withThird, rest)
            : thirdPlayer \in Range(remainingForSelection) }

(* game store: suggestPlayers, one round of the loop for an unpaired        *)
(* initial player when pairs are allowed.  Indexing the emptied rest gives  *)
(* undefined, whose partnerId cannot be read.                               *)
unpairedInitialDraws(st, initialSelection, remainingPlayers) ==
    IF Len(remainingPlayers) = 0
    THEN {Thrown}
    ELSE UNION { LET rest == without(remainingPlayers, secondPlayer)
                     withSecond == Append(initialSelection, secondPlayer)
                     partnerId == st.players[secondPlayer].partnerId
                 IN  IF partnerId # NoPlayer
                     THEN IF partnerId \in Range(rest)
                          THEN lastPlayerDraws(st, Append(withSecond, partnerId),
                                               without(rest, partnerId))
                          ELSE {withSecond}
                     ELSE IF Len(rest) = 0
                          THEN {Thrown}
                          ELSE thirdPlayerDraws(st, withSecond, rest)
                 : secondPlayer \in Range(remainingPlayers) }

(* game store: suggestPlayers, one round of the other loop (the initial     *)
(* player is paired, or pairs are not allowed).                             *)
pairedInitialDraws(st, initialSelection, remainingPlayers) ==
    LET partnerId == st.players[initialSelection[1]].partnerId
        found == partnerId # NoPlayer /\ partnerId \in Range(remainingPlayers)
        withPartner == IF found THEN Append(initialSelection, partnerId)
                       ELSE initialSelection
        rest == IF found THEN without(remainingPlayers, partnerId) ELSE remainingPlayers
    IN  IF Len(rest) > 0 THEN thirdPlayerDraws(st, withPartner, rest) ELSE {withPartner}

(* game store: suggestPlayers, the test that ends a round *)
isValidSelection(st, randomSelection) ==
    /\ Len(randomSelection) = st.settings.playerNumber
    /\ \A k \in DOMAIN randomSelection :
          validatePlayerSelection(st, randomSelection[k], randomSelection)

(* What a call of suggestPlayers can leave: the store, how the call ended   *)
(* and the rounds of random draws it went through.                          *)
suggested(st, how, rounds) == [store |-> st, how |-> how, rounds |-> rounds]

(* The loop, had it kept the selection drawn in its last failed round. *)
suggestLoopKeepingLast(st, draws, attempts) ==
    LET selections == draws \ {Thrown}
        valid == {r \in selections : isValidSelection(st, r)}
    IN  {suggested(st, "threw", attempts + 1) : r \in draws \cap {Thrown}}
        \cup {suggested([st EXCEPT !.selectedPlayers = r], "committed", attempts + 1)
                 : r \in valid}
        \cup {suggested([st EXCEPT !.selectedPlayers = r], "exhausted", maxAttempts)
                 : r \in selections \ valid}

(* game store: suggestPlayers, the while loop from the round its counter    *)
(* stands at: a round throws, commits or is counted as a failed attempt.    *)
RECURSIVE suggestLoop(_, _, _)
suggestLoop(st, draws, attempts) ==
    IF ~(attempts < maxAttempts)
    THEN {suggested(st, "exhausted", attempts)}
    ELSE LET selections == draws \ {Thrown}
             valid == {r \in selections : isValidSelection(st, r)}
         IN  {suggested(st, "threw", attempts + 1) : r \in draws \cap {Thrown}}
             \cup {suggested([st EXCEPT !.selectedPlayers = r], "committed", attempts + 1)
                      : r \in valid}
             \cup (IF selections \ valid # {}
                   THEN suggestLoop(st, draws, attempts + 1)
                   ELSE {})

(* game store: suggestPlayers *)
suggestPlayers(st) ==
    LET sortedAvailablePlayers == getSortedAvailablePlayers(st)
        initialSelection == getInitialSelection(st, getAutoSelectionSize(st))
        remainingPlayers ==
            SelectSeq(sortedAvailablePlayers, LAMBDA p : p \notin Range(initialSelection))
        isInitialPlayerPaired == st.players[initialSelection[1]].partnerId # NoPlayer
    IN  IF Len(sortedAvailablePlayers) < st.settings.playerNumber
        THEN {suggested(st, "tooFew", 0)}
        ELSE suggestLoop(st,
                 IF ~isInitialPlayerPaired /\ st.settings.allowPairs
                 THEN unpairedInitialDraws(st, initialSelection, remainingPlayers)
                 ELSE pairedInitialDraws(st, initialSelection, remainingPlayers),
                 0)

(* ------------------------------ histories ------------------------------ *)
NoSuggest == [how |-> "none", rounds |-> 0]

NotReleased == [round |-> 0, rank |-> 0]

orderOf(ps, id) == parseQueueNumberToOrder(ps[id].queueNumber)

Max(S) == IF S = {} THEN 0 ELSE CHOOSE x \in S : \A y \in S : y <= x

(* The k-th player of a release in round r gets a rank above every rank    *)
(* issued so far; a later entry in the slot's list overrides an earlier    *)
(* one of the same player.                                                 *)
releasedAfterRelease(toRelease, round) ==
    LET base == Max({released[i].rank : i \in DOMAIN released})
    IN  [i \in DOMAIN released |->
            IF i \in Range(toRelease)
            THEN [round |-> round,
                  rank  |-> base + (CHOOSE k \in DOMAIN toRelease :
                                /\ toRelease[k] = i
                                /\ \A j \in (k + 1)..Len(toRelease) : toRelease[j] # i)]
            ELSE released[i]]

(* ------------------------------ actions -------------------------------- *)
Install(st) ==
    /\ players = st.players
    /\ selectedPlayers = st.selectedPlayers
    /\ courtData = st.courtData
    /\ games = st.games
    /\ nextCourt = st.nextCourt
    /\ settings = st.settings
    /\ pairs = st.pairs

Commit(result) ==
    \E st \in {result} :
        /\ players' = st.players
        /\ selectedPlayers' = st.selectedPlayers
        /\ courtData' = st.courtData
        /\ games' = st.games
        /\ nextCourt' = st.nextCourt
        /\ settings' = st.settings
        /\ pairs' = st.pairs

(* A step outside the select-start-release cycle uses up one of the budget. *)
Aside == asidesLeft > 0 /\ asidesLeft' = asidesLeft - 1

(* A step that starts a game uses up one of the budget. *)
Started(result) ==
    /\ Len(result.games) > Len(games) => gamesLeft > 0
    /\ gamesLeft' = gamesLeft - (Len(result.games) - Len(games))

(* The state after useGameStore.initialize() and usePlayerStore.initialize(). *)
initialStore ==
    [players |-> buildInitialPlayers, selectedPlayers |-> <<>>,
     courtData |-> buildInitialCourtData, games |-> <<>>,
     nextCourt |-> 1, settings |-> buildGameSettings("DOUBLE"), pairs |-> <<>>]

Init ==
    /\ gameQueue = <<>>
    /\ queuedGamePlayers = <<>>
    /\ lastSuggest = NoSuggest
    /\ clock = 0
    /\ Install(initialStore)
    /\ released = [i \in 1..MaxPlayers |-> NotReleased]
    /\ gamesLeft = MaxGames
    /\ asidesLeft = MaxAsides

StartGame ==
    /\ Started(startGame(Store))
    /\ Commit(startGame(Store))
    /\ UNCHANGED <<gameQueue, queuedGamePlayers, lastSuggest, clock, released, asidesLeft>>

(* The Start Game button is disabled unless canStartGame(). *)
HandleStartGame ==
    /\ canStartGame(Store)
    /\ Started(handleStartGame(Store))
    /\ Commit(handleStartGame(Store))
    /\ UNCHANGED <<gameQueue, queuedGamePlayers, lastSuggest, clock, released, asidesLeft>>

(* The pool calls autoSelectPlayers() when it renders with an empty selection. *)
AutoSelectPlayers ==
    /\ Len(selectedPlayers) = 0
    /\ Commit(autoSelectPlayers(Store))
    /\ UNCHANGED <<gameQueue, queuedGamePlayers, lastSuggest, clock, released, gamesLeft, asidesLeft>>

(* The pool lists the available players only. *)
SelectPlayer(player) ==
    /\ Commit(selectPlayer(Store, player))
    /\ UNCHANGED <<gameQueue, queuedGamePlayers, lastSuggest, clock, released, gamesLeft, asidesLeft>>

ReleaseCourt(courtId) ==
    /\ Commit(releaseCourt(Store, courtId))
    /\ released' = releasedAfterRelease(courtData[courtId].players, Len(games))
    /\ UNCHANGED <<gameQueue, queuedGamePlayers, lastSuggest, clock, gamesLeft, asidesLeft>>

ToggleCourtLock(courtId) ==
    /\ Aside
    /\ Commit(toggleCourtLock(Store, courtId))
    /\ UNCHANGED <<gameQueue, queuedGamePlayers, lastSuggest, clock, released, gamesLeft>>

DeletePlayer(id) ==
    /\ Aside
    /\ Commit(deletePlayer(Store, id))
    /\ UNCHANGED <<gameQueue, queuedGamePlayers, lastSuggest, clock, released, gamesLeft>>

(* The user-management list disables Undelete unless the player is retired. *)
UndeletePlayer(id) ==
    /\ players[id].status = "retired"
    /\ Aside
    /\ Commit(undeletePlayer(Store, id))
    /\ released' = [released EXCEPT ![id] = NotReleased]
    /\ UNCHANGED <<gameQueue, queuedGamePlayers, lastSuggest, clock, gamesLeft>>

AddPlayer ==
    /\ Len(players) < MaxPlayers
    /\ Aside
    /\ Commit(addPlayer(Store))
    /\ UNCHANGED <<gameQueue, queuedGamePlayers, lastSuggest, clock, released, gamesLeft>>

UpdateSettings(format) ==
    /\ Commit(updateSettings(Store, format))
    /\ UNCHANGED <<gameQueue, queuedGamePlayers, lastSuggest, clock, released, gamesLeft, asidesLeft>>

(* A minute of wall-clock time passes. *)
Tick ==
    /\ clock < MaxClock
    /\ Aside
    /\ clock' = clock + 1
    /\ UNCHANGED <<gameQueue, queuedGamePlayers, lastSuggest, players, selectedPlayers, courtData, games, nextCourt, settings, pairs,
                   released, gamesLeft>>

Next ==
    \/ StartGame
    \/ HandleStartGame
    \/ AutoSelectPlayers
    \/ \E player \in Range(getSortedAvailablePlayers(Store)) : SelectPlayer(player)
    \/ \E courtId \in Courts : ReleaseCourt(courtId)
    \/ \E courtId \in Courts : ToggleCourtLock(courtId)
    \/ \E id \in DOMAIN players : DeletePlayer(id)
    \/ \E id \in DOMAIN players : UndeletePlayer(id)
    \/ AddPlayer
    \/ \E format \in Formats : UpdateSettings(format)
    \/ Tick

Spec == Init /\ [][Next]_vars

(* ------------------------- the courts alone ---------------------------- *)
(* A further player has joined and the format is SINGLE, so that two games *)
(* can be on court at once; the run starts, releases and locks only, and   *)
(* may start one game more.                                                *)
courtsStore == updateSettings(addPlayer(initialStore), "SINGLE")

InitCourts ==
    /\ gameQueue = <<>>
    /\ queuedGamePlayers = <<>>
    /\ lastSuggest = NoSuggest
    /\ clock = 0
    /\ Install(courtsStore)
    /\ released = [i \in 1..MaxPlayers |-> NotReleased]
    /\ gamesLeft = MaxGames + 1
    /\ asidesLeft = MaxAsides

NextCourts ==
    \/ StartGame
    \/ HandleStartGame
    \/ AutoSelectPlayers
    \/ \E player \in Range(getSortedAvailablePlayers(Store)) : SelectPlayer(player)
    \/ \E courtId \in Courts : ReleaseCourt(courtId)
    \/ \E courtId \in Courts : ToggleCourtLock(courtId)

SpecCourts == InitCourts /\ [][NextCourts]_vars

(* ------------------------- late in a session --------------------------- *)
(* The user completes the selection from the head of the pool.             *)
RECURSIVE fillSelection(_)
fillSelection(st) ==
    LET sorted == getSortedAvailablePlayers(st)
        free == {k \in DOMAIN sorted : sorted[k] \notin Range(st.selectedPlayers)}
        first == CHOOSE k \in free : \A j \in free : k <= j
    IN  IF Len(st.selectedPlayers) >= st.settings.playerNumber \/ free = {}
        THEN st
        ELSE IF selectPlayer(st, sorted[first]) = st
             THEN st
             ELSE fillSelection(selectPlayer(st, sorted[first]))

(* One game from the pool's rendering to its release: the pool selects,    *)
(* the user completes the selection and starts the game, the court is      *)
(* released.                                                               *)
playRound(st) ==
    LET s1 == IF Len(st.selectedPlayers) = 0 THEN autoSelectPlayers(st) ELSE st
        s2 == fillSelection(s1)
    IN  releaseCourt(handleStartGame(s2), s2.nextCourt)

RECURSIVE afterRounds(_, _)
afterRounds(st, n) ==
    IF n = 0 THEN st
    ELSE IF n = 1
         THEN CHOOSE r \in {playRound(s) : s \in {st}} : TRUE
         ELSE CHOOSE r \in {afterRounds(s, n - (n \div 2)) : s \in {afterRounds(st, n \div 2)}} : TRUE

(* The stores two games short of the limit of generateQueueNumber. *)
lateStore == afterRounds(updateSettings(initialStore, "SINGLE"), QueueLimit - 2)

InitLate ==
    /\ gameQueue = <<>>
    /\ queuedGamePlayers = <<>>
    /\ lastSuggest = NoSuggest
    /\ clock = 0
    /\ Install(lateStore)
    /\ released = [i \in 1..MaxPlayers |-> NotReleased]
    /\ gamesLeft = MaxGames
    /\ asidesLeft = MaxAsides

NextLate ==
    \/ StartGame
    \/ HandleStartGame
    \/ AutoSelectPlayers
    \/ \E player \in Range(getSortedAvailablePlayers(Store)) : SelectPlayer(player)
    \/ \E courtId \in Courts : ReleaseCourt(courtId)
    \/ \E id \in DOMAIN players : DeletePlayer(id)
    \/ \E id \in DOMAIN players : UndeletePlayer(id)
    \/ AddPlayer

SpecLate == InitLate /\ [][NextLate]_vars

(* --------------------------- the roster -------------------------------- *)
(* The stores in format SINGLE with one game to start and one more step    *)
(* outside the cycle, so that a player can join while a game is on and     *)
(* another can be retired and reinstated.                                  *)
InitRoster ==
    /\ gameQueue = <<>>
    /\ queuedGamePlayers = <<>>
    /\ lastSuggest = NoSuggest
    /\ clock = 0
    /\ Install(updateSettings(initialStore, "SINGLE"))
    /\ released = [i \in 1..MaxPlayers |-> NotReleased]
    /\ gamesLeft = 1
    /\ asidesLeft = MaxAsides + 1

SpecRoster == InitRoster /\ [][NextLate]_vars

(* ----------------------------- pair store ------------------------------ *)
MaxPairs == 2
MaxDraws == 12
QueuePlayers == 36
MaxStarts == 9
MaxOffset == 1
MaxReleases == 1

(* uuid(): an id that no pair of the list has *)
freshPairId(st) ==
    LET used == {st.pairs[k].id : k \in DOMAIN st.pairs}
    IN  CHOOSE n \in 1..(Len(st.pairs) + 1) :
            n \notin used /\ \A m \in 1..(n - 1) : m \in used

(* pairs.find((p) => p.id === pairId): the index of the first pair with    *)
(* the id, 0 when there is none.                                           *)
findPairById(st, pairId) ==
    LET hits == {k \in DOMAIN st.pairs : st.pairs[k].id = pairId}
    IN  IF hits = {} THEN 0 ELSE CHOOSE k \in hits : \A j \in hits : k <= j

(* pairs.find((p) => p.playerIds.includes(playerId)): the index of the     *)
(* first pair with the member, 0 when there is none.                       *)
findPairOf(st, playerId) ==
    LET hits == {k \in DOMAIN st.pairs : playerId \in Range(st.pairs[k].playerIds)}
    IN  IF hits = {} THEN 0 ELSE CHOOSE k \in hits : \A j \in hits : k <= j

(* pair store: getPairedPlayer *)
getPairedPlayer(st, playerId) ==
    LET at == findPairOf(st, playerId)
        others == {k \in 1..2 : st.pairs[at].playerIds[k] # playerId}
    IN  IF at = 0 \/ others = {}
        THEN NoPlayer
        ELSE st.pairs[at].playerIds[CHOOSE k \in others : \A j \in others : k <= j]

(* pair store: validatePair *)
validatePair(st, playerIds) ==
    LET validPlayers ==
            \A k \in 1..2 : /\ playerIds[k] \in DOMAIN st.players
                            /\ st.players[playerIds[k]].status = "available"
        notPaired == \A k \in 1..2 : getPairedPlayer(st, playerIds[k]) = NoPlayer
    IN  validPlayers /\ notPaired

(* player store, as the pair store calls it: updatePlayer(updatedPlayer)   *)
(* puts the record it is given in the place of the player with that id.    *)
replacePlayer(ps, id, updatedPlayer) ==
    [i \in DOMAIN ps |-> IF i = id THEN updatedPlayer ELSE ps[i]]

(* pair store: updatePlayerPartners([playerId1, playerId2]); playerId2 is  *)
(* NoPlayer for null.  Both players are read from the players list as it   *)
(* was when the operation began.                                           *)
updatePlayerPartners(st, playerId1, playerId2) ==
    LET snapshot == st.players
        ps1 == IF playerId1 \in DOMAIN snapshot
               THEN replacePlayer(st.players, playerId1,
                                  [snapshot[playerId1] EXCEPT !.partnerId = playerId2])
               ELSE st.players
        ps2 == IF playerId2 # NoPlayer /\ playerId2 \in DOMAIN snapshot
               THEN replacePlayer(ps1, playerId2,
                                  [snapshot[playerId2] EXCEPT !.partnerId = playerId1])
               ELSE ps1
    IN  [st EXCEPT !.players = ps2]

(* pair store: createPair *)
createPair(st, playerIds) ==
    IF ~validatePair(st, playerIds)
    THEN st
    ELSE updatePlayerPartners(
            [st EXCEPT !.pairs = Append(st.pairs, [id |-> freshPairId(st),
                                                   playerIds |-> playerIds])],
            playerIds[1], playerIds[2])

(* pair store: deletePair *)
deletePair(st, pairId) ==
    LET at == findPairById(st, pairId)
        st1 == updatePlayerPartners(st, st.pairs[at].playerIds[1], NoPlayer)
        st2 == updatePlayerPartners(st1, st.pairs[at].playerIds[2], NoPlayer)
    IN  IF at = 0
        THEN st
        ELSE [st2 EXCEPT !.pairs = SelectSeq(st2.pairs, LAMBDA pair : pair.id # pairId)]

(* createPair is called for two different players. *)
CreatePair(a, b) ==
    /\ a # b
    /\ Aside
    /\ Commit(createPair(Store, <<a, b>>))
    /\ UNCHANGED <<gameQueue, queuedGamePlayers, lastSuggest, clock, released, gamesLeft>>

DeletePair(pairId) ==
    /\ Aside
    /\ Commit(deletePair(Store, pairId))
    /\ UNCHANGED <<gameQueue, queuedGamePlayers, lastSuggest, clock, released, gamesLeft>>

PairIds == 1..MaxPairs

(* The stores with pairs: four players, format SINGLE; the run pairs and   *)
(* unpairs, selects, starts and releases, retires and reinstates.          *)
InitPairs ==
    /\ gameQueue = <<>>
    /\ queuedGamePlayers = <<>>
    /\ lastSuggest = NoSuggest
    /\ clock = 0
    /\ Install(courtsStore)
    /\ released = [i \in 1..MaxPlayers |-> NotReleased]
    /\ gamesLeft = MaxGames
    /\ asidesLeft = MaxAsides + 1

NextPairs ==
    \/ \E a, b \in DOMAIN players : CreatePair(a, b)
    \/ \E pairId \in PairIds : DeletePair(pairId)
    \/ \E player \in Range(getSortedAvailablePlayers(Store)) : SelectPlayer(player)
    \/ StartGame
    \/ \E courtId \in Courts : ReleaseCourt(courtId)
    \/ \E id \in DOMAIN players : DeletePlayer(id)
    \/ \E id \in DOMAIN players : UndeletePlayer(id)

SpecPairs == InitPairs /\ [][NextPairs]_vars

(* ------------------------- pairs in App.tsx ---------------------------- *)
(* App.tsx keeps players, pairs and selectedPlayers in component state;    *)
(* a handler reads the state of its render, and of several setX(value)     *)
(* calls for the same state in one handler the last one is what stays.     *)

(* App.tsx: handleCreatePair *)
handleCreatePair(st, playerIds) ==
    LET playersToPair == {i \in DOMAIN st.players : i \in Range(playerIds)}
    IN  IF \E i \in playersToPair : st.players[i].status # "available"
        THEN st
        ELSE [st EXCEPT
                !.pairs = Append(st.pairs, [id |-> freshPairId(st),
                                            playerIds |-> playerIds]),
                !.players = [i \in DOMAIN st.players |->
                                IF i = playerIds[1]
                                THEN [st.players[i] EXCEPT !.partnerId = playerIds[2]]
                                ELSE IF i = playerIds[2]
                                     THEN [st.players[i] EXCEPT !.partnerId = playerIds[1]]
                                     ELSE st.players[i]]]

(* App.tsx: handleDeletePair, the check that no member is playing *)
canUnpair(st, at) ==
    \A i \in DOMAIN st.players :
        i \in Range(st.pairs[at].playerIds) => st.players[i].status # "playing"

(* App.tsx: handleDeletePair *)
handleDeletePair(st, pairId) ==
    LET at == findPairById(st, pairId)
    IN  IF at = 0 \/ ~canUnpair(st, at)
        THEN st
        ELSE [st EXCEPT
                !.pairs = SelectSeq(st.pairs, LAMBDA pair : pair.id # pairId),
                !.players = [i \in DOMAIN st.players |->
                                IF i \in Range(st.pairs[at].playerIds)
                                THEN [st.players[i] EXCEPT !.partnerId = NoPlayer]
                                ELSE st.players[i]]]

(* App.tsx: handleDeletePlayer.  Every handleDeletePair(pair.id) it calls  *)
(* sets pairs from the pairs of this render, so the last call that is not  *)
(* rejected decides the list; the setPlayers of those calls is overwritten *)
(* by the handler's own setPlayers, which maps the players of this render. *)
handleDeletePlayer(st, id) ==
    LET pairsWithPlayer == {k \in DOMAIN st.pairs : id \in Range(st.pairs[k].playerIds)}
        unpaired == {k \in pairsWithPlayer : canUnpair(st, k)}
        last == CHOOSE k \in unpaired : \A j \in unpaired : j <= k
    IN  IF id \notin DOMAIN st.players \/ st.players[id].status = "playing"
        THEN st
        ELSE [st EXCEPT
                !.pairs = IF unpaired = {} THEN st.pairs
                          ELSE handleDeletePair(st, st.pairs[last].id).pairs,
                !.selectedPlayers = without(st.selectedPlayers, id),
                !.players = updatePlayerStatus(st.players, id, "retired")]

(* App.tsx: handleUndeletePlayer *)
handleUndeletePlayer(st, id) ==
    [st EXCEPT !.players = updatePlayerStatus(st.players, id, "available")]

(* handleCreatePair is called for two different players. *)
HandleCreatePair(a, b) ==
    /\ a # b
    /\ Len(pairs) < MaxPairs
    /\ Commit(handleCreatePair(Store, <<a, b>>))
    /\ UNCHANGED <<gameQueue, queuedGamePlayers, lastSuggest, clock, released, gamesLeft, asidesLeft>>

HandleDeletePair(pairId) ==
    /\ Commit(handleDeletePair(Store, pairId))
    /\ UNCHANGED <<gameQueue, queuedGamePlayers, lastSuggest, clock, released, gamesLeft, asidesLeft>>

HandleDeletePlayer(id) ==
    /\ Commit(handleDeletePlayer(Store, id))
    /\ UNCHANGED <<gameQueue, queuedGamePlayers, lastSuggest, clock, released, gamesLeft, asidesLeft>>

HandleUndeletePlayer(id) ==
    /\ Commit(handleUndeletePlayer(Store, id))
    /\ UNCHANGED <<gameQueue, queuedGamePlayers, lastSuggest, clock, released, gamesLeft, asidesLeft>>

NextApp ==
    \/ \E a, b \in DOMAIN players : HandleCreatePair(a, b)
    \/ \E pairId \in PairIds : HandleDeletePair(pairId)
    \/ \E id \in DOMAIN players : HandleDeletePlayer(id)
    \/ \E id \in DOMAIN players : HandleUndeletePlayer(id)

SpecApp == Init /\ [][NextApp]_vars

(* --------------------- the pool, with partners ------------------------- *)
(* The user-management dialog over the stores: it keeps the pairs in the   *)
(* pair store of stores/index (createPair(name, first, second)) and writes *)
(* partnerId and partner on the two players itself.                        *)
(* pair store (stores/index): canPairPlayers *)
canPairPlayers(st, firstPlayerId, secondPlayerId) ==
    /\ firstPlayerId \in DOMAIN st.players
    /\ secondPlayerId \in DOMAIN st.players
    /\ findPairOf(st, firstPlayerId) = 0
    /\ findPairOf(st, secondPlayerId) = 0

(* pair store (stores/index): createPair *)
PairState_createPair(st, firstPlayerId, secondPlayerId) ==
    IF ~canPairPlayers(st, firstPlayerId, secondPlayerId)
    THEN st
    ELSE [st EXCEPT !.pairs = Append(st.pairs,
                                     [id |-> freshPairId(st),
                                      playerIds |-> <<firstPlayerId, secondPlayerId>>])]

(* pair store (stores/index): deletePair *)
PairState_deletePair(st, pairId) ==
    [st EXCEPT !.pairs = SelectSeq(st.pairs, LAMBDA pair : pair.id # pairId)]

(* player store: updatePlayer(id, {partnerId, partner}) *)
updatePartner(ps, id, partnerId, partner) ==
    [i \in DOMAIN ps |->
        IF i = id THEN [ps[i] EXCEPT !.partnerId = partnerId, !.partner = partner]
        ELSE ps[i]]

(* UserManagement: handleCreatePair.  Both players are found in the        *)
(* players the dialog rendered with, whatever createPair did.              *)
UserManagement_handleCreatePair(st, partnerA, partnerB) ==
    LET st1 == PairState_createPair(st, partnerA, partnerB)
    IN  [st1 EXCEPT !.players =
            updatePartner(updatePartner(st1.players, partnerA, partnerB, partnerB),
                          partnerB, partnerA, partnerA)]

(* UserManagement: handleDeletePair *)
UserManagement_handleDeletePair(st, pairId) ==
    LET at == findPairById(st, pairId)
        playerIds == st.pairs[at].playerIds
    IN  IF at = 0
        THEN st
        ELSE PairState_deletePair(
                 [st EXCEPT !.players =
                     updatePartner(updatePartner(st.players, playerIds[1], NoPlayer, NoPlayer),
                                   playerIds[2], NoPlayer, NoPlayer)],
                 pairId)

(* UserManagement: handleDeletePlayer *)
UserManagement_handleDeletePlayer(st, playerId) ==
    LET foundPlayer == st.players[playerId]
        cleared ==
            IF foundPlayer.partnerId # NoPlayer \/ foundPlayer.partner # NoPlayer
            THEN [st EXCEPT !.players = updatePartner(st.players, playerId, NoPlayer, NoPlayer)]
            ELSE st
    IN  deletePlayer(cleared, playerId)

(* pair store (stores/index): getAvailablePlayersForPairing *)
getAvailablePlayersForPairing(st) ==
    {i \in DOMAIN st.players :
        st.players[i].status = "available" /\ findPairOf(st, i) = 0}

(* The dialog lists getAvailablePlayersForPairing() and pairs two of them. *)
PairUp(a, b) ==
    /\ a # b
    /\ {a, b} \subseteq getAvailablePlayersForPairing(Store)
    /\ Len(pairs) < MaxPairs
    /\ Aside
    /\ Commit(UserManagement_handleCreatePair(Store, a, b))
    /\ UNCHANGED <<clock, released, gamesLeft, lastSuggest, gameQueue, queuedGamePlayers>>

(* The Unpair button is disabled while a member of the pair is playing. *)
Unpair(pairId) ==
    /\ findPairById(Store, pairId) # 0
    /\ \A k \in 1..2 :
          players[pairs[findPairById(Store, pairId)].playerIds[k]].status # "playing"
    /\ Aside
    /\ Commit(UserManagement_handleDeletePair(Store, pairId))
    /\ UNCHANGED <<clock, released, gamesLeft, lastSuggest, gameQueue, queuedGamePlayers>>

(* The Delete button is disabled unless the player is available. *)
RetirePlayer(id) ==
    /\ players[id].status = "available"
    /\ Aside
    /\ Commit(UserManagement_handleDeletePlayer(Store, id))
    /\ UNCHANGED <<clock, released, gamesLeft, lastSuggest, gameQueue, queuedGamePlayers>>

(* The Suggest button of the pool. *)
SuggestPlayers ==
    \E outcome \in suggestPlayers(Store) :
        /\ Commit(outcome.store)
        /\ lastSuggest' = [how |-> outcome.how, rounds |-> outcome.rounds]
        /\ UNCHANGED <<clock, released, gamesLeft, asidesLeft, gameQueue,
                       queuedGamePlayers>>

(* The settings dialog, counted as a step outside the cycle. *)
ChangeFormat(format) ==
    /\ Aside
    /\ Commit(updateSettings(Store, format))
    /\ UNCHANGED <<clock, released, gamesLeft, lastSuggest, gameQueue, queuedGamePlayers>>

poolStore == addPlayer(initialStore)

InitPool ==
    /\ gameQueue = <<>>
    /\ queuedGamePlayers = <<>>
    /\ lastSuggest = NoSuggest
    /\ clock = 0
    /\ Install(poolStore)
    /\ released = [i \in 1..MaxPlayers |-> NotReleased]
    /\ gamesLeft = 0
    /\ asidesLeft = MaxAsides + 1

NextPool ==
    \/ AutoSelectPlayers
    \/ \E player \in Range(getSortedAvailablePlayers(Store)) : SelectPlayer(player)
    \/ SuggestPlayers
    \/ \E a, b \in DOMAIN players : PairUp(a, b)
    \/ \E pairId \in PairIds : Unpair(pairId)
    \/ \E id \in DOMAIN players : RetirePlayer(id)
    \/ \E id \in DOMAIN players : UndeletePlayer(id)
    \/ \E format \in Formats : ChangeFormat(format)

SpecPool == InitPool /\ [][NextPool]_vars

(* ------------------ suggestPlayers by recursion ------------------------ *)
(* The earlier game store: suggestPlayers draws in getRandomPlayers, which *)
(* calls itself while the last player drawn has a partner.  Its counter is *)
(* incremented after the inner call has returned, so the test              *)
(* attempts >= maxAttempts reads 0 in every call on the way down.  One     *)
(* call of getRandomPlayers is one step here; lastSuggest.how is "drawing" *)
(* while the handler runs, and nothing else runs meanwhile.                *)

(* Array.from({length: suggestionSize}).forEach: the sequences of players  *)
(* drawn one after the other, each spliced out of remainingPlayers.        *)
RECURSIVE randomDraws(_, _)
randomDraws(remainingPlayers, count) ==
    IF count = 0 \/ Len(remainingPlayers) = 0
    THEN {<<>>}
    ELSE UNION { {<<randomPlayer>> \o rest
                    : rest \in randomDraws(without(remainingPlayers, randomPlayer),
                                           count - 1)}
                 : randomPlayer \in Range(remainingPlayers) }

(* The objects of a selection: a player of the roster carries its partner *)
(* field, while the object getInitialSelection or flatMap pushes for a    *)
(* partner is the copy stored at pairing time, which has no partner field.*)
rosterObject(st, id) == [id |-> id, partner |-> st.players[id].partner]
partnerCopy(id) == [id |-> id, partner |-> NoPlayer]

(* the objects getInitialSelection returned: each player it visited,      *)
(* followed by the copy of its partner when it pushed one                 *)
RECURSIVE initialObjects(_, _, _)
initialObjects(st, initial, k) ==
    IF k > Len(initial)
    THEN <<>>
    ELSE IF /\ st.settings.allowPairs
            /\ st.players[initial[k]].partner # NoPlayer
            /\ k < Len(initial)
         THEN <<rosterObject(st, initial[k]), partnerCopy(initial[k + 1])>>
                  \o initialObjects(st, initial, k + 2)
         ELSE <<rosterObject(st, initial[k])>> \o initialObjects(st, initial, k + 1)

(* selections.flatMap: a player whose partner is not among the selections  *)
(* is followed by the partner.                                             *)
RECURSIVE withPartners(_, _, _)
withPartners(st, selections, k) ==
    IF k > Len(selections)
    THEN <<>>
    ELSE LET player == selections[k]
         IN  (IF /\ player.partner # NoPlayer
                 /\ \A j \in DOMAIN selections :
                        selections[j].id # st.players[player.id].partnerId
              THEN <<player, partnerCopy(player.partner)>>
              ELSE <<player>>) \o withPartners(st, selections, k + 1)

(* earlier game store: getRandomPlayers, up to the test that ends a call *)
getRandomPlayers(st) ==
    LET initial == getInitialSelection(st, getAutoSelectionSize(st))
        sorted == getSortedAvailablePlayers(st)
        remainingPlayers == SelectSeq(sorted, LAMBDA p : p \notin Range(initial))
    IN  { LET selections == initialObjects(st, initial, 1)
                               \o [k \in DOMAIN drawn |-> rosterObject(st, drawn[k])]
          IN  IF st.settings.allowPairs
              THEN slice(withPartners(st, selections, 1), 0, st.settings.playerNumber)
              ELSE selections
          : drawn \in randomDraws(remainingPlayers, st.settings.suggestionSize) }

(* earlier game store: getRandomPlayers, lastPlayerToSuggest?.partner *)
lastPlayerHasPartner(st, selections) ==
    /\ st.settings.allowPairs
    /\ Len(selections) >= st.settings.playerNumber
    /\ selections[st.settings.playerNumber].partner # NoPlayer

(* The Suggest button over the earlier game store: suggestPlayers up to    *)
(* its first call of getRandomPlayers.                                     *)
BeginSuggest ==
    /\ lastSuggest.how # "drawing"
    /\ LET sorted == getSortedAvailablePlayers(Store)
       IN  IF Len(sorted) < settings.playerNumber
           THEN /\ lastSuggest' = [how |-> "tooFew", rounds |-> 0]
                /\ UNCHANGED selectedPlayers
           ELSE IF Len(sorted) = settings.playerNumber
                THEN /\ lastSuggest' = [how |-> "committed", rounds |-> 0]
                     /\ selectedPlayers' = sorted
                ELSE /\ lastSuggest' = [how |-> "drawing", rounds |-> 0]
                     /\ UNCHANGED selectedPlayers
    /\ UNCHANGED <<players, courtData, games, nextCourt, settings, pairs,
                   clock, released, gamesLeft, asidesLeft, gameQueue, queuedGamePlayers>>

(* One call of getRandomPlayers: it draws, and either calls itself or      *)
(* returns its selections all the way up to selectPlayers.                 *)
DrawPlayers ==
    /\ lastSuggest.how = "drawing"
    /\ lastSuggest.rounds < MaxDraws
    /\ \E selections \in getRandomPlayers(Store) :
          IF lastPlayerHasPartner(Store, selections)
          THEN /\ lastSuggest' = [how |-> "drawing", rounds |-> lastSuggest.rounds + 1]
               /\ UNCHANGED selectedPlayers
          ELSE /\ lastSuggest' = [how |-> "committed", rounds |-> lastSuggest.rounds + 1]
               /\ selectedPlayers' = [k \in DOMAIN selections |-> selections[k].id]
    /\ UNCHANGED <<players, courtData, games, nextCourt, settings, pairs,
                   clock, released, gamesLeft, asidesLeft, gameQueue, queuedGamePlayers>>

(* Five players, the last two paired in the user-management dialog. *)
drawStore ==
    UserManagement_handleCreatePair(addPlayer(addPlayer(initialStore)), 4, 5)

InitDraw ==
    /\ gameQueue = <<>>
    /\ queuedGamePlayers = <<>>
    /\ lastSuggest = NoSuggest
    /\ clock = 0
    /\ Install(drawStore)
    /\ released = [i \in 1..MaxPlayers |-> NotReleased]
    /\ gamesLeft = 0
    /\ asidesLeft = MaxAsides

NextDraw ==
    \/ BeginSuggest
    \/ DrawPlayers
    \/ \E player \in Range(getSortedAvailablePlayers(Store)) :
          lastSuggest.how # "drawing" /\ SelectPlayer(player)
    \/ \E id \in DOMAIN players : lastSuggest.how # "drawing" /\ RetirePlayer(id)

SpecDraw == InitDraw /\ [][NextDraw]_vars

(* ----------------------- the waiting queue ----------------------------- *)
(* The App component that keeps a waiting queue: its state is players,     *)
(* selectedPlayers, courtData, games, nextCourt, gameQueue and             *)
(* queuedGamePlayers.  A player is [status, queueNumber], its index is its *)
(* position in the array; a Game keeps its playerIds.                      *)
App ==
    [players |-> players, selectedPlayers |-> selectedPlayers, courtData |-> courtData,
     games |-> games, nextCourt |-> nextCourt, settings |-> settings,
     gameQueue |-> gameQueue, queuedGamePlayers |-> queuedGamePlayers]

playerIdsOf(game) == game.firstParty.playerIds \o game.secondParty.playerIds

(* App: assignGameToCourt *)
App_assignGameToCourt(app, game, court, gamePlayers) ==
    LET updatedGame == [game EXCEPT !.courtId = court]
    IN  [app EXCEPT
            !.courtData = [app.courtData EXCEPT ![court] =
                              [court   |-> [app.courtData[court].court
                                               EXCEPT !.status = "playing"],
                               gameId  |-> updatedGame.id,
                               game    |-> updatedGame.id,
                               players |-> gamePlayers]],
            !.games = Append(app.games, updatedGame),
            !.queuedGamePlayers =
                SelectSeq(app.queuedGamePlayers, LAMBDA qgp : qgp.gameId # game.id)]

(* A startGame that enqueues whatever the length of the queue. *)
App_startGame_unbounded(app) ==
    IF Len(app.selectedPlayers) # 4
    THEN app
    ELSE LET selectedPlayerIds == app.selectedPlayers
             game == [id          |-> Len(app.games) + Len(app.gameQueue) + 1,
                      courtId     |-> app.nextCourt,
                      firstParty  |-> [playerIds |-> slice(selectedPlayerIds, 0, 2),
                                       score |-> 0],
                      secondParty |-> [playerIds |-> slice(selectedPlayerIds, 2, 4),
                                       score |-> 0],
                      index       |-> Len(app.games) + 1]
             marked == [app EXCEPT
                          !.players = [i \in DOMAIN app.players |->
                                          IF i \in Range(app.selectedPlayers)
                                          THEN [app.players[i] EXCEPT !.status = "unavailable"]
                                          ELSE app.players[i]]]
             placed ==
                 IF app.nextCourt = NoCourt
                 THEN [marked EXCEPT
                         !.gameQueue = Append(app.gameQueue, game),
                         !.queuedGamePlayers =
                             Append(app.queuedGamePlayers,
                                    [gameId |-> game.id,
                                     players |-> app.selectedPlayers])]
                 ELSE App_assignGameToCourt(marked, game, app.nextCourt,
                                            app.selectedPlayers)
         IN  [placed EXCEPT !.selectedPlayers = <<>>]

(* App: startGame.  uuid() is a fresh id: games are numbered in the order  *)
(* in which they are kept.                                                 *)
App_startGame(app) ==
    IF Len(app.selectedPlayers) # 4
    THEN app
    ELSE LET selectedPlayerIds == app.selectedPlayers
             game == [id          |-> Len(app.games) + Len(app.gameQueue) + 1,
                      courtId     |-> app.nextCourt,
                      firstParty  |-> [playerIds |-> slice(selectedPlayerIds, 0, 2),
                                       score |-> 0],
                      secondParty |-> [playerIds |-> slice(selectedPlayerIds, 2, 4),
                                       score |-> 0],
                      index       |-> Len(app.games) + 1]
             marked == [app EXCEPT
                          !.players = [i \in DOMAIN app.players |->
                                          IF i \in Range(app.selectedPlayers)
                                          THEN [app.players[i] EXCEPT !.status = "unavailable"]
                                          ELSE app.players[i]]]
             placed ==
                 IF app.nextCourt = NoCourt
                 THEN IF Len(app.gameQueue) < QueueCapacity
                      THEN [marked EXCEPT
                              !.gameQueue = Append(app.gameQueue, game),
                              !.queuedGamePlayers =
                                  Append(app.queuedGamePlayers,
                                         [gameId |-> game.id,
                                          players |-> app.selectedPlayers])]
                      ELSE marked
                 ELSE App_assignGameToCourt(marked, game, app.nextCourt,
                                            app.selectedPlayers)
         IN  [placed EXCEPT !.selectedPlayers = <<>>]

(* App: releaseCourt.  The released players are numbered after the         *)
(* available players whose queue number starts with games.length + 1.      *)
App_releaseCourt(app, courtId) ==
    IF courtId \notin DOMAIN app.courtData
    THEN app
    ELSE LET availablePlayers ==
                 {i \in DOMAIN app.players :
                     /\ app.players[i].status = "available"
                     /\ startsWith(app.players[i].queueNumber, Len(app.games) + 1)}
             playersToRelease == app.courtData[courtId].players
         IN  [app EXCEPT
                !.players = releasePlayers(app.players, playersToRelease, 1,
                                           Len(app.games) + 1,
                                           Cardinality(availablePlayers)),
                !.courtData = [app.courtData EXCEPT ![courtId] =
                                  [court   |-> [app.courtData[courtId].court
                                                   EXCEPT !.status = "available"],
                                   gameId  |-> NoGame,
                                   game    |-> NoGame,
                                   players |-> <<>>]]]

(* players.filter((player) => ids.includes(player.id)): in array order *)
playersInArrayOrder(ids) ==
    LET S == Range(ids)
        rank(i) == Cardinality({j \in S : j < i}) + 1
    IN  [k \in 1..Cardinality(S) |-> CHOOSE i \in S : rank(i) = k]

(* An effect that hands the game queued last to the available court. *)
RECURSIVE App_courtEffect_newestFirst(_)
App_courtEffect_newestFirst(app) ==
    LET nextAvailableCourts ==
            {c \in Courts : app.courtData[c].court.status = "available"}
        first == CHOOSE c \in nextAvailableCourts : \A d \in nextAvailableCourts : c <= d
    IN  IF nextAvailableCourts = {}
        THEN [app EXCEPT !.nextCourt = NoCourt]
        ELSE IF Len(app.gameQueue) > 0
             THEN LET nextGame == app.gameQueue[Len(app.gameQueue)]
                      playersInGame == playersInArrayOrder(playerIdsOf(nextGame))
                  IN  App_courtEffect_newestFirst(
                          [App_assignGameToCourt([app EXCEPT !.nextCourt = first],
                                                 nextGame, first, playersInGame)
                              EXCEPT !.gameQueue =
                                  SubSeq(app.gameQueue, 1, Len(app.gameQueue) - 1)])
             ELSE [app EXCEPT !.nextCourt = first]

(* App: the effect on [courtData, games, gameQueue].  It sets nextCourt    *)
(* and hands the head of the queue to the first available court; what it   *)
(* sets makes it run again, until it changes nothing.                      *)
RECURSIVE App_courtEffect(_)
App_courtEffect(app) ==
    LET nextAvailableCourts ==
            {c \in Courts : app.courtData[c].court.status = "available"}
        first == CHOOSE c \in nextAvailableCourts : \A d \in nextAvailableCourts : c <= d
    IN  IF nextAvailableCourts = {}
        THEN [app EXCEPT !.nextCourt = NoCourt]
        ELSE IF Len(app.gameQueue) > 0
             THEN LET nextGame == Head(app.gameQueue)
                      playersInGame == playersInArrayOrder(playerIdsOf(nextGame))
                  IN  App_courtEffect(
                          [App_assignGameToCourt([app EXCEPT !.nextCourt = first],
                                                 nextGame, first, playersInGame)
                              EXCEPT !.gameQueue = Tail(app.gameQueue)])
             ELSE [app EXCEPT !.nextCourt = first]

(* Pool: the effect that selects the lead players as soon as the selection *)
(* is empty and enough players are available.                              *)
Pool_autoSelectEffect(app) ==
    LET availablePlayers == getSortedAvailablePlayers(app)
        autoSelectionSize == getAutoSelectionSize(app)
    IN  IF Len(app.selectedPlayers) = 0 /\ Len(availablePlayers) >= autoSelectionSize
        THEN [app EXCEPT !.selectedPlayers = slice(availablePlayers, 0, autoSelectionSize)]
        ELSE app

(* The effects that follow a render. *)
afterRender(app) == Pool_autoSelectEffect(App_courtEffect(app))

(* Pool: suggestPlayers.  The random indexes are distinct and lie after    *)
(* the lead players; here they are runs of consecutive indexes that begin  *)
(* at most MaxOffset places after the lead players.                        *)
Pool_suggestPlayers(app) ==
    LET availablePlayers == getSortedAvailablePlayers(app)
        autoSelectionSize == getAutoSelectionSize(app)
        suggestionSize == app.settings.suggestionSize
    IN  IF Len(availablePlayers) < app.settings.playerNumber
        THEN {app}
        ELSE IF Len(availablePlayers) = app.settings.playerNumber
             THEN {[app EXCEPT !.selectedPlayers = availablePlayers]}
             ELSE {[app EXCEPT !.selectedPlayers =
                       slice(availablePlayers, 0, autoSelectionSize)
                         \o slice(availablePlayers, autoSelectionSize + offset,
                                  autoSelectionSize + offset + suggestionSize)]
                   : offset \in {o \in 0..MaxOffset :
                        autoSelectionSize + o + suggestionSize <= Len(availablePlayers)}}

(* The roster: buildInitialPlayers, then one addPlayer for each further    *)
(* name before the first game (gameIndex games.length + 1, playerIndex     *)
(* players.length).                                                        *)
queueRoster ==
    [i \in 1..QueuePlayers |->
        [status |-> "available",
         queueNumber |-> IF i <= InitPlayers
                         THEN generateQueueNumber(0, i - 1)
                         ELSE generateQueueNumber(1, i - 1)]]

CommitApp(result) ==
    \E app \in {afterRender(result)} :
        /\ players' = app.players
        /\ selectedPlayers' = app.selectedPlayers
        /\ courtData' = app.courtData
        /\ games' = app.games
        /\ nextCourt' = app.nextCourt
        /\ gameQueue' = app.gameQueue
        /\ queuedGamePlayers' = app.queuedGamePlayers
        /\ UNCHANGED <<settings, pairs, clock, released, gamesLeft, asidesLeft, lastSuggest>>

(* Players that are unavailable without being on a court or in the queue. *)
strandedPlayers ==
    {i \in DOMAIN players :
        /\ players[i].status = "unavailable"
        /\ \A c \in Courts : i \notin Range(courtData[c].players)
        /\ \A k \in DOMAIN gameQueue : i \notin Range(playerIdsOf(gameQueue[k]))}

(* games kept or dropped so far *)
startsSoFar == Len(games) + Len(gameQueue) + Cardinality(strandedPlayers) \div 4

(* courts released so far: the games kept in games that are on no court *)
releasesSoFar ==
    Len(games) - Cardinality({c \in Courts : courtData[c].gameId # NoGame})

QueueSuggestPlayers ==
    \E result \in Pool_suggestPlayers(App) : CommitApp(result)

QueueStartGame ==
    /\ Len(selectedPlayers) = 4 => startsSoFar < MaxStarts
    /\ CommitApp(App_startGame(App))

(* The court's Finish button is disabled unless the court holds a game. *)
QueueReleaseCourt(courtId) ==
    /\ courtData[courtId].gameId # NoGame
    /\ releasesSoFar < MaxReleases
    /\ CommitApp(App_releaseCourt(App, courtId))

InitQueue ==
    /\ gameQueue = <<>>
    /\ queuedGamePlayers = <<>>
    /\ lastSuggest = NoSuggest
    /\ clock = 0
    /\ players = queueRoster
    /\ selectedPlayers = <<1>>
    /\ courtData = buildInitialCourtData
    /\ games = <<>>
    /\ nextCourt = 1
    /\ settings = buildGameSettings("DOUBLE")
    /\ pairs = <<>>
    /\ released = [i \in 1..MaxPlayers |-> NotReleased]
    /\ gamesLeft = 0
    /\ asidesLeft = 0

NextQueue ==
    \/ QueueSuggestPlayers
    \/ QueueStartGame
    \/ \E courtId \in Courts : QueueReleaseCourt(courtId)

SpecQueue == InitQueue /\ [][NextQueue]_vars

(* ------------------------------- claims -------------------------------- *)
(* contexts/court.context.tsx: isCourtAvailable, on the store's court data *)
isCourtAvailable(c) == courtData[c].court.status = "available" /\ ~courtData[c].court.locked

(* C1: startGame never binds a new game to a court whose slot still holds  *)
(* a game that has not been ended: every step that binds a game to a court *)
(* finds no players in that court's slot.                                  *)
C1_OneActiveGamePerCourt ==
    [][\A c \in Courts :
          courtData'[c].gameId # courtData[c].gameId => courtData[c].players = <<>>]_vars

(* C2: in every reachable state getNextAvailableCourt returns null or a    *)
(* court whose locked flag is false.                                       *)
C2_LockedCourtNeverReturned ==
    LET court == getNextAvailableCourt(Store)
    IN  court = NoCourt \/ ~courtData[court].court.locked

(* C3: whenever exactly playerNumber players are selected and some court   *)
(* is available and unlocked, startGame() creates a game.                  *)
C3_StartGameSucceeds ==
    (Len(selectedPlayers) = settings.playerNumber /\ \E c \in Courts : isCourtAvailable(c))
        => Len(startGame(Store).games) = Len(games) + 1

(* C4: when startGame() succeeds, the post-state has a new Game with both  *)
(* scores 0 bound to the court it took, that court's status is playing,    *)
(* every selected player's status is playing and selectedPlayers is empty. *)
C4_StartGamePostState ==
    [][(StartGame /\ Len(games') > Len(games)) =>
          LET court == nextCourt
              game == games'[Len(games')]
          IN  /\ Len(games') = Len(games) + 1
              /\ game.courtId = court
              /\ game.firstScore = 0
              /\ game.secondScore = 0
              /\ courtData'[court].gameId = game.id
              /\ courtData'[court].court.status = "playing"
              /\ \A i \in Range(selectedPlayers) : players'[i].status = "playing"
              /\ selectedPlayers' = <<>>]_vars

(* C4, its case: startGame() has just succeeded on a court. *)
C4_GameStarted ==
    \E c \in Courts :
        /\ Len(games) > 0
        /\ games[Len(games)].courtId = c
        /\ courtData[c].gameId = Len(games)
        /\ courtData[c].court.status = "playing"
        /\ Len(courtData[c].players) = settings.playerNumber
        /\ \A i \in Range(courtData[c].players) : players[i].status = "playing"
        /\ selectedPlayers = <<>>
        /\ nextCourt = NoCourt

(* C5: when startGame() is called and its preconditions fail (the          *)
(* selection's size differs from playerNumber, or no court is available    *)
(* and unlocked; the stores have no waiting queue), nothing changes.       *)
C5_FailedStartChangesNothing ==
    [][(StartGame /\ ~(Len(selectedPlayers) = settings.playerNumber
                        /\ \E c \in Courts : isCourtAvailable(c)))
          => UNCHANGED <<players, selectedPlayers, courtData, games>>]_vars

C7_ReleaseClearsSlot ==
    [][\A c \in Courts :
          (ReleaseCourt(c) /\ courtData[c].players # <<>>)
             => /\ courtData'[c].gameId = NoGame
                /\ courtData'[c].game = NoGame
                /\ courtData'[c].players = <<>>]_vars

(* C8: releaseCourt(courtId) on a court with no active game changes        *)
(* nothing: the court's status and locked flag, all player statuses and    *)
(* all queue keys are as before.                                           *)
C8_IdleReleaseChangesNothing ==
    [][\A c \in Courts :
          (ReleaseCourt(c) /\ courtData[c].players = <<>>)
             => UNCHANGED <<players, courtData>>]_vars

(* C9: for an available unlocked court, startGame followed by releaseCourt *)
(* of that court leaves the court available and every player of the game   *)
(* available with an order number strictly greater than before the game.   *)
C9_StartThenRelease ==
    (canStartGame(Store) /\ isCourtAvailable(nextCourt)) =>
        LET after == releaseCourt(startGame(Store), nextCourt)
        IN  /\ after.courtData[nextCourt].court.status = "available"
            /\ \A i \in Range(selectedPlayers) :
                  /\ after.players[i].status = "available"
                  /\ orderLess(orderOf(players, i), orderOf(after.players, i))

(* C10: among the players released in the same round (the same             *)
(* games.length at release), one released earlier has a strictly smaller   *)
(* order number than one released later.                                   *)
C10_ReleaseOrder ==
    \A i, j \in DOMAIN players :
        (/\ released[i].rank > 0
         /\ released[j].rank > 0
         /\ released[i].round = released[j].round
         /\ released[i].rank < released[j].rank)
            => orderLess(orderOf(players, i), orderOf(players, j))

(* p comes before q in the list getSortedAvailablePlayers returns for ps *)
precedes(ps, p, q) ==
    LET sorted == getSortedAvailablePlayers([players |-> ps])
    IN  \E k, l \in DOMAIN sorted : k < l /\ sorted[k] = p /\ sorted[l] = q

(* C11: the fairness order is never inverted: when a player q becomes      *)
(* available (released, added or reinstated), every player p that was      *)
(* available before and still is comes before q in                         *)
(* getSortedAvailablePlayers.                                              *)
C11_FairnessOrder ==
    [][\A p \in DOMAIN players : \A q \in DOMAIN players' :
          (/\ players[p].status = "available"
           /\ players'[p].status = "available"
           /\ players'[q].status = "available"
           /\ (q \notin DOMAIN players \/ players[q].status # "available"))
             => precedes(players', p, q)]_vars

(* C12: toggleCourtLock on a court whose status is playing leaves the      *)
(* status playing: only the locked flag flips, and the slot's game and     *)
(* players and all player records are unchanged.                           *)
C12_LockKeepsPlaying ==
    [][\A c \in Courts :
          (ToggleCourtLock(c) /\ courtData[c].court.status = "playing")
             => /\ courtData'[c].court.status = "playing"
                /\ courtData'[c].court.locked = ~courtData[c].court.locked
                /\ courtData'[c].gameId = courtData[c].gameId
                /\ courtData'[c].game = courtData[c].game
                /\ courtData'[c].players = courtData[c].players
                /\ players' = players]_vars

(* C13: a court that was locked while it held an active game (its players  *)
(* list is not empty) has status unavailable, not available, after         *)
(* releaseCourt.                                                           *)
C13_ReleaseOfLockedCourt ==
    [][\A c \in Courts :
          (ReleaseCourt(c) /\ courtData[c].court.locked /\ courtData[c].players # <<>>)
             => courtData'[c].court.status = "unavailable"]_vars

(* C14: unlocking a court sets its status to available only if the court   *)
(* holds no active game (its players list is empty).                       *)
C14_UnlockOfPlayingCourt ==
    [][\A c \in Courts :
          (/\ ToggleCourtLock(c)
           /\ courtData[c].court.locked
           /\ courtData'[c].court.status = "available")
             => courtData[c].players = <<>>]_vars

(* C15: every change of a court's status is one of: available to           *)
(* unavailable by locking, unavailable to available by unlocking,          *)
(* available to playing by startGame, playing to available or to           *)
(* unavailable by releaseCourt; no step changes a status in another way.   *)
C15_StatusTransitions ==
    [][\A c \in Courts :
          LET from == courtData[c].court.status
              to == courtData'[c].court.status
          IN  from # to =>
                \/ /\ from = "available" /\ to = "unavailable"
                   /\ ToggleCourtLock(c) /\ ~courtData[c].court.locked
                \/ /\ from = "unavailable" /\ to = "available"
                   /\ ToggleCourtLock(c) /\ courtData[c].court.locked
                \/ /\ from = "available" /\ to = "playing"
                   /\ (StartGame \/ HandleStartGame)
                \/ /\ from = "playing" /\ to \in {"available", "unavailable"}
                   /\ ReleaseCourt(c)]_vars

(* C16: every court whose locked flag is true has status unavailable.      *)
C16_LockedIsUnavailable ==
    \A c \in Courts : courtData[c].court.locked => courtData[c].court.status = "unavailable"

(* C17: every player whose status is playing is in the players list of     *)
(* exactly one court slot.                                                 *)
C17_PlayingOnOneCourt ==
    \A i \in DOMAIN players :
        players[i].status = "playing"
            => Cardinality({c \in Courts : i \in Range(courtData[c].players)}) = 1

(* C18: partnerId is symmetric: for all players a and b, a's partnerId is  *)
(* b exactly when b's partnerId is a.                                      *)
C18_PartnerSymmetry ==
    \A a, b \in DOMAIN players :
        players[a].partnerId = b <=> players[b].partnerId = a

(* some pair of the list has the player as a member *)
inSomePair(i) == \E k \in DOMAIN pairs : i \in Range(pairs[k].playerIds)

(* C19: creating a pair of two players is rejected, with no pair created   *)
(* and no partnerId changed, whenever either player's status is not        *)
(* available or either player already belongs to a pair.                   *)
C19_CreatePairRejected ==
    [][\A a, b \in DOMAIN players :
          (/\ CreatePair(a, b) \/ HandleCreatePair(a, b)
           /\ \/ players[a].status # "available"
              \/ players[b].status # "available"
              \/ inSomePair(a)
              \/ inSomePair(b))
             => /\ pairs' = pairs
                /\ \A i \in DOMAIN players : players'[i].partnerId = players[i].partnerId]_vars

(* C20: deleting a pair while either member's status is playing is         *)
(* rejected: the pair stays in the list and the members' partnerIds are    *)
(* unchanged.                                                              *)
C20_UnpairWhilePlaying ==
    [][\A k \in DOMAIN pairs :
          (/\ DeletePair(pairs[k].id) \/ HandleDeletePair(pairs[k].id)
           /\ \E i \in Range(pairs[k].playerIds) : players[i].status = "playing")
             => /\ pairs' = pairs
                /\ \A i \in Range(pairs[k].playerIds) :
                      players'[i].partnerId = players[i].partnerId]_vars

C22_PairsSelectedTogether ==
    settings.allowPairs =>
        \A k \in DOMAIN selectedPlayers :
            players[selectedPlayers[k]].partnerId # NoPlayer
                => players[selectedPlayers[k]].partnerId \in Range(selectedPlayers)

(* The locked-in head: the first autoSelectionSize players of the sorted   *)
(* available players.                                                      *)
lockedInHead(st) == slice(getSortedAvailablePlayers(st), 0, getAutoSelectionSize(st))

(* The selection, unless it is empty, contains the locked-in head. *)
containsHead(st) ==
    Len(st.selectedPlayers) > 0
        => Range(lockedInHead(st)) \subseteq Range(st.selectedPlayers)

(* C23: a non-empty selection contains the first autoSelectionSize players *)
(* of getSortedAvailablePlayers, and keeps containing them through every   *)
(* step that leaves the settings alone: a player retired, released or      *)
(* reinstated included.                                                    *)
C23_SelectionKeepsHead ==
    [][(Len(selectedPlayers) > 0 /\ containsHead(Store) /\ settings' = settings)
        => (Len(selectedPlayers') > 0
              => Range(lockedInHead(Store)') \subseteq Range(selectedPlayers'))]_vars

(* The players of the locked-in head and, while pairs are allowed, the     *)
(* partners forced in with them.                                           *)
headWithPartners(st) ==
    Range(lockedInHead(st))
        \cup {st.players[p].partner : p \in {q \in Range(lockedInHead(st)) :
                    st.settings.allowPairs /\ st.players[q].partner # NoPlayer}}

(* C24: selectPlayer on a player of the locked-in head, or on the partner  *)
(* forced in with a head player, leaves selectedPlayers as it was (the     *)
(* selection is not empty: the head has been locked in).                   *)
C24_HeadNotTogglable ==
    [][\A player \in headWithPartners(Store) :
          (Len(selectedPlayers) > 0 /\ SelectPlayer(player))
              => selectedPlayers' = selectedPlayers]_vars

(* player store, the later getInitialSelection: a player is pushed only if *)
(* it fits, a player that carries a partner only together with the partner *)
(* and only if both fit.                                                   *)
RECURSIVE fittingSelectionFrom(_, _, _, _, _)
fittingSelectionFrom(st, availablePlayers, size, index, selection) ==
    IF ~(Len(selection) < size /\ index <= Len(availablePlayers))
    THEN selection
    ELSE LET player == availablePlayers[index]
             partner == st.players[player].partner
         IN  fittingSelectionFrom(st, availablePlayers, size, index + 1,
                 IF partner # NoPlayer
                 THEN IF Len(selection) + 2 <= size
                      THEN selection \o <<player, partner>> ELSE selection
                 ELSE IF Len(selection) + 1 <= size
                      THEN Append(selection, player) ELSE selection)

getInitialSelection_fitting(st, size) ==
    fittingSelectionFrom(st, getSortedAvailablePlayers(st), size, 1, <<>>)

(* The first of the sorted available players carries a partner, pairs are  *)
(* allowed and autoSelectionSize is 1.                                     *)
pairedHead(st) ==
    /\ st.settings.allowPairs
    /\ getAutoSelectionSize(st) = 1
    /\ Len(getSortedAvailablePlayers(st)) > 0
    /\ st.players[getSortedAvailablePlayers(st)[1]].partner # NoPlayer

(* C25: with pairs allowed and autoSelectionSize 1, when the head player A *)
(* is paired with B, getInitialSelection(autoSelectionSize) returns        *)
(* exactly A and B.                                                        *)
C25_InitialSelectionOfPairedHead ==
    pairedHead(Store) =>
        getInitialSelection_fitting(Store, getAutoSelectionSize(Store))
            = << getSortedAvailablePlayers(Store)[1],
                 players[getSortedAvailablePlayers(Store)[1]].partner >>

(* A player that carries a partner while pairs are allowed, outside the    *)
(* head and the partners forced in with it.                                *)
pairedOutsideHead(st, player) ==
    /\ st.settings.allowPairs
    /\ st.players[player].partner # NoPlayer
    /\ player \notin headWithPartners(st)

(* C26: selectPlayer on a paired player outside the head toggles the pair  *)
(* as a unit: both are removed if it is selected, both are added if at     *)
(* least two slots are free, and neither is added if fewer are free.       *)
C26_PairToggledAsUnit ==
    [][\A player \in DOMAIN players :
          (pairedOutsideHead(Store, player) /\ SelectPlayer(player))
              => LET partner == players[player].partner
                     free == settings.playerNumber - Len(selectedPlayers)
                 IN  IF player \in Range(selectedPlayers)
                     THEN {player, partner} \cap Range(selectedPlayers') = {}
                     ELSE IF free >= 2
                          THEN {player, partner} \subseteq Range(selectedPlayers')
                          ELSE selectedPlayers' = selectedPlayers]_vars

(* At least playerNumber players are available and no player is paired. *)
enoughUnpaired(st) ==
    /\ Len(getSortedAvailablePlayers(st)) >= st.settings.playerNumber
    /\ \A i \in DOMAIN st.players :
          st.players[i].partnerId = NoPlayer /\ st.players[i].partner = NoPlayer

(* C27: when at least playerNumber players are available and none is       *)
(* paired, suggestPlayers commits on its first attempt a selection of      *)
(* exactly playerNumber distinct available players that contains the head. *)
C27_SuggestCommitsAtOnce ==
    [][(enoughUnpaired(Store) /\ SuggestPlayers)
        => /\ lastSuggest' = [how |-> "committed", rounds |-> 1]
           /\ Len(selectedPlayers') = settings.playerNumber
           /\ Cardinality(Range(selectedPlayers')) = settings.playerNumber
           /\ Range(selectedPlayers') \subseteq Range(getSortedAvailablePlayers(Store))
           /\ Range(lockedInHead(Store)) \subseteq Range(selectedPlayers')]_vars

(* C28: a call of suggestPlayers that exhausts its attempts without a      *)
(* valid combination, or that finds fewer than playerNumber players        *)
(* available, leaves selectedPlayers exactly as it was.                    *)
C28_FailedSuggestKeepsSelection ==
    [][(SuggestPlayers /\ lastSuggest'.how \in {"exhausted", "tooFew"})
        => selectedPlayers' = selectedPlayers]_vars

(* suggestPlayers has run out of attempts over a selection that is not     *)
(* empty.                                                                  *)
C28_ExhaustedOverSelection ==
    lastSuggest.how = "exhausted" /\ Len(selectedPlayers) > 0

(* C29: suggestPlayers ends after at most 10 rounds of random draws,       *)
(* whatever the roster and the pairs.                                      *)
C29_AtMostTenDraws == lastSuggest.rounds <= maxAttempts

(* C30: the waiting queue never holds more than 6 games; a startGame with  *)
(* no court available and 6 games waiting does not add a 7th.              *)
C30_QueueWithinCapacity == Len(gameQueue) <= QueueCapacity

(* a full queue, and a game that was started over it and not kept *)
C30_StartOverFullQueue == Len(gameQueue) = QueueCapacity /\ strandedPlayers # {}

(* C31: a court released while games wait takes the head of the queue at   *)
(* once, under its own court id, and the games that have started are in    *)
(* the order in which they were made, ahead of every game still waiting.   *)
C31_QueueHeadPromoted ==
    [][/\ \A c \in Courts :
            (QueueReleaseCourt(c) /\ Len(gameQueue) > 0) =>
                /\ gameQueue' = Tail(gameQueue)
                /\ games' = Append(games, [Head(gameQueue) EXCEPT !.courtId = c])
                /\ courtData'[c].gameId = Head(gameQueue).id
                /\ courtData'[c].court.status = "playing"
                /\ Range(courtData'[c].players) = Range(playerIdsOf(Head(gameQueue)))
       /\ \A i, j \in DOMAIN games' : i < j => games'[i].id < games'[j].id
       /\ \A i \in DOMAIN games' : \A k \in DOMAIN gameQueue' :
               games'[i].id < gameQueue'[k].id
       /\ \A k \in DOMAIN gameQueue' : gameQueue'[k].courtId = NoCourt]_vars

(* a game still waiting that was queued before the last game started: the *)
(* game ahead of it was taken from the queue                               *)
C31_PromotedAheadOfWaiting ==
    Len(gameQueue) > 0 /\ gameQueue[1].index <= Len(games)

(* C32: no player's queue number is ever the empty string: addPlayer,      *)
(* undeletePlayer and releaseCourt leave every player a fixed-width key of *)
(* three fields, also once a game index or player index passes 999.        *)
C32_KeysAreTokens ==
    \A i \in DOMAIN players :
        /\ players[i].queueNumber # <<>>
        /\ Len(players[i].queueNumber) = 3
        /\ players[i].queueNumber[1] < QueueLimit
        /\ players[i].queueNumber[3] < QueueLimit

(* C33: for the keys generateQueueNumber has issued, the order of the      *)
(* numbers parseQueueNumberToOrder gives is the lexicographic order of the *)
(* key strings, a key of an earlier round sorts first, and within a round  *)
(* a key of an earlier position sorts first.                               *)
C33_KeyOrder ==
    \A i, j \in DOMAIN players :
        LET a == players[i].queueNumber
            b == players[j].queueNumber
            x == keyString(a)
            y == keyString(b)
            stringLess ==
                \/ \E k \in DOMAIN x \cap DOMAIN y :
                      x[k] < y[k] /\ \A l \in 1..(k - 1) : x[l] = y[l]
                \/ Len(x) < Len(y) /\ \A l \in DOMAIN x : x[l] = y[l]
            numberLess == orderLess(parseQueueNumberToOrder(a), parseQueueNumberToOrder(b))
        IN  (a # <<>> /\ b # <<>>) =>
                /\ numberLess <=> stringLess
                /\ a[1] < b[1] => numberLess
                /\ (a[1] = b[1] /\ a[3] < b[3]) => numberLess

(* C34: a retired player reinstated by undeletePlayer is available, with a *)
(* key of the current round whose order number is strictly greater than   *)
(* that of every other available player of that round.                    *)
C34_ReinstatedAtTheBack ==
    [][\A id \in DOMAIN players :
          (/\ players[id].status = "retired"
           /\ UndeletePlayer(id) \/ HandleUndeletePlayer(id)) =>
              LET prefix == IF Len(games) > 0 THEN Len(games) + 1 ELSE 0
              IN  /\ players'[id].status = "available"
                  /\ startsWith(players'[id].queueNumber, prefix)
                  /\ \A j \in DOMAIN players' \ {id} :
                        (/\ players'[j].status = "available"
                         /\ startsWith(players'[j].queueNumber, prefix))
                            => orderLess(orderOf(players', j), orderOf(players', id))]_vars

(* C35: in every format the Game that startGame builds has the first half  *)
(* of selectedPlayers as its first party and the rest as its second; the   *)
(* parties are disjoint and hold settings.playerNumber players together.   *)
C35_PartiesAreHalves ==
    [][Len(games') > Len(games) =>
          LET game == newGame(Store, Len(games) + 1)
              half == settings.playerNumber \div 2
              first == game.firstParty.playerIds
              second == game.secondParty.playerIds
          IN  /\ first = slice(selectedPlayers, 0, half)
              /\ second = slice(selectedPlayers, half, Len(selectedPlayers))
              /\ Range(first) \cap Range(second) = {}
              /\ Cardinality(Range(first) \cup Range(second)) = settings.playerNumber]_vars

(* C36: every pair holds two different players of the roster, and          *)
(* createPair called with one player for both members makes no pair and    *)
(* sets no partnerId.                                                      *)
C36_PairOfTwoPlayers ==
    /\ \A k \in DOMAIN pairs :
          /\ pairs[k].playerIds[1] # pairs[k].playerIds[2]
          /\ Range(pairs[k].playerIds) \subseteq DOMAIN players
    /\ \A a \in DOMAIN players :
          LET after == createPair(Store, <<a, a>>)
          IN  after.pairs = pairs /\ after.players = players

(* C37: a player has a partnerId exactly when some pair of the list holds  *)
(* the player; in particular neither member keeps a partnerId once the     *)
(* pair is gone, by deleting the pair or by retiring a member.             *)
C37_PartnerIdIffPaired ==
    \A i \in DOMAIN players : players[i].partnerId # NoPlayer <=> inSomePair(i)

(* C38: a player of a court's game that was retired while playing stays    *)
(* retired through every step but its own undeletePlayer, the release of   *)
(* its court included, and is not among the sorted available players.      *)
C38_RetiredWhilePlaying ==
    [][\A c \in Courts : \A i \in Range(courtData[c].players) :
          (players[i].status = "retired" /\ ~UndeletePlayer(i)) =>
              /\ players'[i].status = "retired"
              /\ i \notin Range(getSortedAvailablePlayers(Store)')]_vars

(* C39: after updateSettings has changed the format, the selection is no   *)
(* longer than the playerNumber of the new settings.                       *)
C39_SelectionFitsNewFormat ==
    [][\A format \in Formats :
          (UpdateSettings(format) \/ ChangeFormat(format)) /\ settings' # settings
              => Len(selectedPlayers') <= settings'.playerNumber]_vars

(* C40: whenever nextCourt names a court, that court has status available, *)
(* is not locked and holds no game.                                        *)
C40_NextCourtIsFree ==
    nextCourt # NoCourt =>
        /\ courtData[nextCourt].court.status = "available"
        /\ ~courtData[nextCourt].court.locked
        /\ courtData[nextCourt].gameId = NoGame
        /\ courtData[nextCourt].players = <<>>
====
